---- MODULE Spec2Model ----
(***************************************************************************)
(* Model of scripts/lang.py of plantree/bing-translator: the language      *)
(* lister.  One invocation issues an HTTP GET, decodes the body as JSON,   *)
(* projects response['translation'] onto a code -> name dict and prints    *)
(* the dict as key-sorted, 4-space indented JSON.                          *)
(*                                                                         *)
(* Strings that are compared by the program (the language codes, sorted by *)
(* json.dumps) are sequences of code points; a Python dict is the sequence *)
(* of its <<key, value>> items in insertion order.                         *)
(***************************************************************************)
EXTENDS Integers, Sequences, FiniteSets

VARIABLES
    pc,        \* position of the process in the script
    http,      \* what the server/transport answered to requests.get (line 14)
    response,  \* line 14: the decoded JSON document
    items,     \* line 16: the part of response['translation'].items() not yet iterated
    lang_map,  \* line 15: the dict built by get_support_languages
    result,    \* line 21: the module-level lang_map, the function's return value
    text,      \* line 22: the value of json.dumps(...)
    stdout,    \* the lines written to standard output by this invocation
    nGet,      \* number of HTTP GET requests issued by this invocation
    nPrint,    \* number of print calls completed by this invocation
    prev       \* record of the preceding invocation (body, output, outcome)

vars == <<pc, http, response, items, lang_map, result, text, stdout, nGet, nPrint, prev>>

-----------------------------------------------------------------------------
(* Bounds of the environment. *)

\* Largest number of entries under `translation` in a response.
MaxEntries == 2

\* Language codes as code-point sequences: "a", "ab", "b".
Codes == {<<1>>, <<1, 2>>, <<2>>}

\* Display names.
Names == {"English", "French"}

\* HTTP status codes the server may answer with.
Statuses == {200, 404}

-----------------------------------------------------------------------------
(* JSON documents. *)

\* A descriptor under `translation`.  hasName = FALSE stands for every value
\* on which value['name'] raises: an object without the key (KeyError) or a
\* non-object (TypeError).
Descs == {[hasName |-> TRUE, name |-> n] : n \in Names}
            \cup {[hasName |-> FALSE, name |-> ""]}

\* A decoded `translation` mapping: items in document order, keys unique.
Translations ==
    UNION {{s \in [1..n -> Codes \X Descs] :
               \A i, j \in 1..n : s[i][1] = s[j][1] => i = j} : n \in 0..MaxEntries}

\* Response bodies, by the shape that decides how far the code gets:
\*   notjson        the body is not valid JSON
\*   notobject      valid JSON, but not an object (array, string, number, null)
\*   notranslation  an object without a `translation` field
\*   notmapping     `translation` is present but is not an object
\*   mapping        `translation` is an object with the given entries
Bodies ==
    {[shape |-> sh, entries |-> <<>>] :
        sh \in {"notjson", "notobject", "notranslation", "notmapping"}}
    \cup {[shape |-> "mapping", entries |-> t] : t \in Translations}

NoResponse == [shape |-> "none", entries |-> <<>>]
NoHttp == [status |-> 0, body |-> NoResponse]
NoRun == [ran |-> FALSE, body |-> NoResponse, stdout |-> <<>>, pc |-> "start"]

-----------------------------------------------------------------------------
(* Python semantics used by the script. *)

Min(a, b) == IF a < b THEN a ELSE b

\* str.__lt__: comparison of two strings by code points.
LexLess(a, b) ==
    \E i \in 1..(Min(Len(a), Len(b)) + 1) :
        /\ \A j \in 1..(i - 1) : a[j] = b[j]
        /\ \/ i > Len(a) /\ i <= Len(b)
           \/ i <= Len(a) /\ i <= Len(b) /\ a[i] < b[i]

\* d.keys()
Keys(d) == {d[i][1] : i \in 1..Len(d)}

\* d[k] for a key that is present
Lookup(d, k) == d[CHOOSE i \in 1..Len(d) : d[i][1] = k][2]

\* Variant of DictSet: lang_map = {key: value['name']}, a new one-item dict on
\* every iteration instead of an insertion into lang_map.
DictSetReplace(d, k, v) == <<<<k, v>>>>

\* d[k] = v: replaces the value in place when the key is present, appends
\* the item otherwise.
DictSet(d, k, v) ==
    IF k \in Keys(d)
    THEN [i \in 1..Len(d) |-> IF d[i][1] = k THEN <<k, v>> ELSE d[i]]
    ELSE Append(d, <<k, v>>)

Remove(d, k) == SelectSeq(d, LAMBDA it : it[1] # k)

\* Variant of SortedItems: sort_keys left out, the items stay in insertion order.
InsertionOrder(d) == d

RECURSIVE SortedItems(_)
\* sorted(d.items()), as json.dumps(sort_keys=True) orders the items
SortedItems(d) ==
    IF d = <<>> THEN <<>>
    ELSE LET k == CHOOSE x \in Keys(d) : \A y \in Keys(d) \ {x} : LexLess(x, y)
         IN <<<<k, Lookup(d, k)>>>> \o SortedItems(Remove(d, k))

\* indent=4
Indent == 4

Line(ind, kind, key, value, comma) ==
    [indent |-> ind, kind |-> kind, key |-> key, value |-> value, comma |-> comma]

\* Variant of Dumps: no special case for the empty dict, which is written as
\* an opening and a closing line.
DumpsNoEmptyCase(d) ==
    LET s == SortedItems(d)
    IN <<Line(0, "{", <<>>, "", FALSE)>>
       \o [i \in 1..Len(s) |-> Line(Indent, "item", s[i][1], s[i][2], i < Len(s))]
       \o <<Line(0, "}", <<>>, "", FALSE)>>

\* json.dumps(d, indent=4, sort_keys=True) as the sequence of its lines:
\* "{}" for the empty dict, otherwise "{", one indented `"key": "value"` line
\* per item, all but the last followed by a comma, and "}".
Dumps(d) ==
    IF d = <<>> THEN <<Line(0, "{}", <<>>, "", FALSE)>>
    ELSE LET s == SortedItems(d)
         IN <<Line(0, "{", <<>>, "", FALSE)>>
            \o [i \in 1..Len(s) |-> Line(Indent, "item", s[i][1], s[i][2], i < Len(s))]
            \o <<Line(0, "}", <<>>, "", FALSE)>>

-----------------------------------------------------------------------------
(* The script. *)

Init ==
    /\ pc = "start"
    /\ http = NoHttp
    /\ response = NoResponse
    /\ items = <<>>
    /\ lang_map = <<>>
    /\ result = <<>>
    /\ text = <<>>
    /\ stdout = <<>>
    /\ nGet = 0
    /\ nPrint = 0
    /\ prev = NoRun

\* Variant of HttpFail: the transport error is caught and the call is issued
\* again.
HttpFailRetry ==
    /\ pc = "pending"
    /\ pc' = "start"
    /\ UNCHANGED <<http, response, items, lang_map, result, text, stdout, nGet, nPrint, prev>>

\* Variant of HttpFail: the transport error is caught and an empty mapping is
\* returned to the entry point.
HttpFailSwallowed ==
    /\ pc = "pending"
    /\ result' = <<>>
    /\ pc' = "encode"
    /\ UNCHANGED <<http, response, items, lang_map, text, stdout, nGet, nPrint, prev>>

\* Lines 21, 13-14: the entry point calls get_support_languages, which
\* issues the GET and blocks on it.
Get ==
    /\ pc = "start"
    /\ pc' = "pending"
    /\ nGet' = nGet + 1
    /\ UNCHANGED <<http, response, items, lang_map, result, text, stdout, nPrint, prev>>

\* Line 14: requests.get raises (connection error, TLS failure, ...).
HttpFail ==
    /\ pc = "pending"
    /\ pc' = "fault"
    /\ UNCHANGED <<http, response, items, lang_map, result, text, stdout, nGet, nPrint, prev>>

\* Line 14: requests.get returns a Response, whatever its status code.
HttpRespond ==
    /\ pc = "pending"
    /\ \E st \in Statuses, b \in Bodies : http' = [status |-> st, body |-> b]
    /\ pc' = "decode"
    /\ UNCHANGED <<response, items, lang_map, result, text, stdout, nGet, nPrint, prev>>

\* Line 14: .json() on the Response; the status code is not consulted.
JsonDecode ==
    /\ pc = "decode"
    /\ IF http.body.shape = "notjson"
       THEN pc' = "fault" /\ UNCHANGED response
       ELSE pc' = "project" /\ response' = http.body
    /\ UNCHANGED <<http, items, lang_map, result, text, stdout, nGet, nPrint, prev>>

\* Variant of InitLangMap: lang_map is a dict that outlives the call (a
\* module-level dict or a mutable default argument) and is not emptied.
InitLangMapStale == lang_map' = lang_map

\* Line 15: lang_map = {}
InitLangMap == lang_map' = <<>>

\* Variant of Project: response.get('translation', {}) in place of
\* response['translation'], so that a missing field reads as no entries.
ProjectDefault ==
    /\ pc = "project"
    /\ InitLangMap
    /\ pc' = "loop"
    /\ items' = response.entries
    /\ UNCHANGED <<http, response, result, text, stdout, nGet, nPrint, prev>>

\* Lines 15-16: the new dict, then response['translation'].items().
Project ==
    /\ pc = "project"
    /\ InitLangMap
    /\ IF response.shape = "mapping"
       THEN pc' = "loop" /\ items' = response.entries
       ELSE pc' = "fault" /\ UNCHANGED items
    /\ UNCHANGED <<http, response, result, text, stdout, nGet, nPrint, prev>>

\* Variant of LoopBody: an entry without `name` is skipped.
LoopBodySkip ==
    /\ pc = "loop"
    /\ items # <<>>
    /\ LET key == Head(items)[1]
           value == Head(items)[2]
       IN lang_map' = IF value.hasName THEN DictSet(lang_map, key, value.name)
                      ELSE lang_map
    /\ items' = Tail(items)
    /\ pc' = "loop"
    /\ UNCHANGED <<http, response, result, text, stdout, nGet, nPrint, prev>>

\* Variant of LoopBody: the iteration does not advance past a well-formed
\* entry.
LoopBodyStuck ==
    /\ pc = "loop"
    /\ items # <<>>
    /\ LET key == Head(items)[1]
           value == Head(items)[2]
       IN IF value.hasName
          THEN /\ lang_map' = DictSet(lang_map, key, value.name)
               /\ pc' = "loop"
               /\ UNCHANGED items
          ELSE /\ pc' = "fault"
               /\ UNCHANGED <<lang_map, items>>
    /\ UNCHANGED <<http, response, result, text, stdout, nGet, nPrint, prev>>

\* Line 17: lang_map[key] = value['name'], for the next item of the loop.
LoopBody ==
    /\ pc = "loop"
    /\ items # <<>>
    /\ LET key == Head(items)[1]
           value == Head(items)[2]
       IN IF value.hasName
          THEN /\ lang_map' = DictSet(lang_map, key, value.name)
               /\ items' = Tail(items)
               /\ pc' = "loop"
          ELSE /\ pc' = "fault"
               /\ UNCHANGED <<lang_map, items>>
    /\ UNCHANGED <<http, response, result, text, stdout, nGet, nPrint, prev>>

\* Lines 18, 21: the loop is exhausted; return lang_map to the entry point.
Return ==
    /\ pc = "loop"
    /\ items = <<>>
    /\ result' = lang_map
    /\ pc' = "encode"
    /\ UNCHANGED <<http, response, items, lang_map, text, stdout, nGet, nPrint, prev>>

\* Line 22: json.dumps(lang_map, indent=4, sort_keys=True)
Encode ==
    /\ pc = "encode"
    /\ text' = Dumps(result)
    /\ pc' = "print"
    /\ UNCHANGED <<http, response, items, lang_map, result, stdout, nGet, nPrint, prev>>

\* Line 22: print(...), then the script ends normally.
PrintOut ==
    /\ pc = "print"
    /\ stdout' = stdout \o text
    /\ nPrint' = nPrint + 1
    /\ pc' = "done"
    /\ UNCHANGED <<http, response, items, lang_map, result, text, nGet, prev>>

Terminal == {"done", "fault"}

Next ==
    \/ Get
    \/ HttpFail
    \/ HttpRespond
    \/ JsonDecode
    \/ Project
    \/ LoopBody
    \/ Return
    \/ Encode
    \/ PrintOut

Spec == Init /\ [][Next]_vars

\* Lines 20-22 once more: the lister is invoked again after an invocation has
\* ended.  The ended invocation is recorded in prev, and what is observed per
\* invocation (the HTTP exchange, the output, the counters) starts anew.
\* response, items, result and text are dead here (each is assigned before it
\* is read again) and are cleared; lang_map is left as the ended invocation
\* left it, so that it is line 15 that makes the dict a new one.
Reinvoke ==
    /\ pc \in Terminal
    /\ prev' = [ran |-> TRUE, body |-> http.body, stdout |-> stdout, pc |-> pc]
    /\ pc' = "start"
    /\ http' = NoHttp
    /\ response' = NoResponse
    /\ items' = <<>>
    /\ result' = <<>>
    /\ text' = <<>>
    /\ stdout' = <<>>
    /\ nGet' = 0
    /\ nPrint' = 0
    /\ UNCHANGED lang_map

NextRepeat ==
    \/ Next
    \/ Reinvoke

\* Any number of invocations, one after the other.
RepeatSpec == Init /\ [][NextRepeat]_vars

\* One invocation in which the process keeps executing while it can and the
\* pending HTTP call eventually completes or fails.
FairSpec == Spec /\ WF_vars(Next)

-----------------------------------------------------------------------------
(* Vocabulary of the properties. *)

Body == http.body
Entries == http.body.entries

\* get_support_languages has returned to the entry point.
Returned == pc \in {"encode", "print", "done"}

\* Every descriptor under `translation` has a `name`.
AllNamed == Body.shape = "mapping" /\ \A i \in 1..Len(Entries) : Entries[i][2].hasName

\* Some descriptor under `translation` has no `name`.
SomeUnnamed == Body.shape = "mapping" /\ \E i \in 1..Len(Entries) : ~Entries[i][2].hasName

\* The code -> name pairs a body holds, whatever their order.
Pairs(b) == {<<b.entries[i][1], b.entries[i][2].name>> : i \in 1..Len(b.entries)}

\* The items of a dict, whatever their order.
ItemSet(d) == {d[i] : i \in 1..Len(d)}

\* The keys of the item lines of an output, in the order they are written.
OutKeys(out) == SelectSeq(out, LAMBDA l : l.kind = "item")

\* Lexicographic rank of the codes of the model: "a" < "ab" < "b".
Rank(c) == CASE c = <<1>> -> 1 [] c = <<1, 2>> -> 2 [] c = <<2>> -> 3

En == <<1>>
Fr == <<2>>

-----------------------------------------------------------------------------
(* C1 *)

\* C1: for a response whose `translation` is a mapping in which every
\* descriptor has a `name`, get_support_languages does not fail, and the
\* mapping it returns has exactly the codes under `translation` as its keys,
\* each once, and maps each code to the `name` of its descriptor.
C1_ProjectionExact ==
    AllNamed =>
        /\ pc # "fault"
        /\ Returned =>
            /\ Keys(result) = {Entries[i][1] : i \in 1..Len(Entries)}
            /\ Len(result) = Cardinality(Keys(result))
            /\ \A i \in 1..Len(Entries) :
                   Lookup(result, Entries[i][1]) = Entries[i][2].name

\* The example of the claim: {"en": English, "fr": French} has been returned.
C1_Witness ==
    /\ pc = "done"
    /\ Entries = <<<<En, [hasName |-> TRUE, name |-> "English"]>>,
                   <<Fr, [hasName |-> TRUE, name |-> "French"]>>>>
    /\ result = <<<<En, "English">>, <<Fr, "French">>>>

(* C2 *)

\* C2: for a response whose `translation` has zero entries,
\* get_support_languages does not fail and returns the empty mapping, and the
\* output of the entry point is the single line {}.
C2_EmptyTranslation ==
    (Body.shape = "mapping" /\ Entries = <<>>) =>
        /\ pc # "fault"
        /\ Returned => result = <<>>
        /\ pc = "done" =>
               stdout = <<[indent |-> 0, kind |-> "{}", key |-> <<>>,
                           value |-> "", comma |-> FALSE]>>

C2_Witness ==
    /\ pc = "done"
    /\ Body.shape = "mapping"
    /\ Entries = <<>>
    /\ nPrint = 1

(* C3 *)

\* C3: the output lists the keys of the Language Map in lexicographically
\* ascending order, each key once, and two invocations whose responses hold
\* the same code -> name pairs, in whatever order, write the same output.
C3_SortedOutput ==
    pc = "done" =>
        /\ LET ks == OutKeys(stdout)
           IN /\ \A i, j \in 1..Len(ks) : i < j => Rank(ks[i].key) < Rank(ks[j].key)
              /\ {ks[i].key : i \in 1..Len(ks)} = Keys(result)
        /\ (prev.ran /\ prev.pc = "done" /\ Pairs(prev.body) = Pairs(Body)) =>
               stdout = prev.stdout

\* Two invocations have printed; their responses hold the same two pairs in
\* opposite orders, the later one with "b" before "a".
C3_Witness ==
    /\ pc = "done"
    /\ prev.ran
    /\ prev.pc = "done"
    /\ Len(Entries) = 2
    /\ Entries[1][1] = Fr
    /\ Entries[2][1] = En
    /\ prev.body.entries = <<Entries[2], Entries[1]>>

(* C4 *)

\* C4: when the decoded response has no `translation` field,
\* get_support_languages never returns (no mapping, empty or partial, reaches
\* the entry point), nothing is printed, and the invocation can only end in
\* the fault state.
C4_MissingTranslationFails ==
    Body.shape \in {"notobject", "notranslation"} =>
        /\ pc \in {"decode", "project", "fault"}
        /\ ~Returned
        /\ result = <<>>
        /\ stdout = <<>>
        /\ nPrint = 0

C4_Witness ==
    /\ pc = "fault"
    /\ Body.shape = "notranslation"
    /\ response = Body

(* C5 *)

\* C5: when some descriptor under `translation` has no `name`,
\* get_support_languages never returns, wherever that entry is in the
\* iteration order: the loop is never exhausted, the partly built mapping
\* never reaches the entry point and nothing is printed.
C5_MissingNameFails ==
    SomeUnnamed =>
        /\ pc \in {"decode", "project", "loop", "fault"}
        /\ pc = "loop" => items # <<>>
        /\ result = <<>>
        /\ stdout = <<>>
        /\ nPrint = 0

\* The fault was raised at the second entry, after a well-formed one was
\* inserted into the mapping.
C5_Witness ==
    /\ pc = "fault"
    /\ Len(Entries) = 2
    /\ Entries[1][2].hasName
    /\ ~Entries[2][2].hasName
    /\ Len(lang_map) = 1
    /\ stdout = <<>>

(* C6 *)

\* C6: an invocation that ends after an invocation with the identical
\* response ends the same way with the identical output, and the mapping an
\* invocation builds holds nothing but what it has itself read from its own
\* response (it starts from a new, empty dict every time).
C6_SameResponseSameOutput ==
    /\ (prev.ran /\ pc \in Terminal /\ Body.shape # "none" /\ prev.body = Body) =>
           /\ stdout = prev.stdout
           /\ pc = prev.pc
    /\ pc = "loop" =>
           /\ Len(lang_map) + Len(items) = Len(Entries)
           /\ \A i \in 1..Len(lang_map) :
                  lang_map[i] = <<Entries[i][1], Entries[i][2].name>>

\* A second invocation has printed for the response of the first, and the
\* output has two entries.
C6_Witness ==
    /\ prev.ran
    /\ prev.pc = "done"
    /\ pc = "done"
    /\ prev.body = Body
    /\ Len(Entries) = 2
    /\ stdout = prev.stdout
    /\ Len(stdout) = 4

(* C7 *)

\* C7: on every failure path (transport failure, body that is not valid
\* JSON, missing `translation`, entry without `name`) nothing is written to
\* standard output and the invocation can only end in the fault state; output
\* exists only once get_support_languages has returned its finished mapping,
\* so a fault and output never occur together.
C7_NoOutputOnFailure ==
    /\ (http = NoHttp /\ pc \notin {"start", "pending"}) => pc = "fault"
    /\ (Body.shape \in {"notjson", "notobject", "notranslation", "notmapping"}
            \/ SomeUnnamed) =>
           /\ pc \in {"decode", "project", "loop", "fault"}
           /\ pc = "loop" => items # <<>>
    /\ pc = "fault" => (stdout = <<>> /\ nPrint = 0)
    /\ pc = "print" => (stdout = <<>> /\ nPrint = 0)
    /\ (stdout # <<>> \/ nPrint > 0) =>
           (pc = "done" /\ AllNamed /\ result = lang_map /\ items = <<>>)

\* The transport failed: the invocation is in the fault state, without output.
C7_Witness ==
    /\ pc = "fault"
    /\ http = NoHttp
    /\ nGet = 1
    /\ stdout = <<>>

(* C8 *)

\* C8 (as claimed): when the server answers with a non-2xx status,
\* get_support_languages does not return normally and nothing is printed.
C8_NonSuccessStatusFaults ==
    (http # NoHttp /\ http.status \notin 200..299) => (~Returned /\ stdout = <<>>)

(* C9 *)

\* The order of the steps of one invocation: fetch, decode, projection,
\* encode, print, with a fault possible up to the end of the projection.
StepOrder ==
    {<<"start", "pending">>, <<"pending", "decode">>, <<"decode", "project">>,
     <<"project", "loop">>, <<"loop", "loop">>, <<"loop", "encode">>,
     <<"encode", "print">>, <<"print", "done">>,
     <<"pending", "fault">>, <<"decode", "fault">>, <<"project", "fault">>,
     <<"loop", "fault">>}

C9_Counts ==
    /\ pc = "start" => nGet = 0
    /\ pc # "start" => nGet = 1
    /\ lang_map # <<>> => nGet = 1
    /\ nPrint = (IF pc = "done" THEN 1 ELSE 0)
    /\ stdout # <<>> =>
           /\ pc = "done"
           /\ stdout = text
           /\ items = <<>>
           /\ Keys(result) = {Entries[i][1] : i \in 1..Len(Entries)}

\* C9: every invocation issues exactly one GET, on success and on every
\* failure path (a failure is never followed by another request); its steps
\* follow the order fetch, decode, projection, encode, print; the output is
\* written at most once, after the whole mapping has been built.
C9_OneRequestFixedOrder ==
    /\ []C9_Counts
    /\ [][/\ <<pc, pc'>> \in StepOrder
          /\ nGet' # nGet => (pc = "start" /\ nGet' = nGet + 1)
          /\ nPrint' # nPrint => (pc = "print" /\ nPrint' = nPrint + 1)
          /\ pc \in Terminal => pc' = pc]_vars

\* A failure after part of the projection: one request was issued, one entry
\* was inserted, nothing was printed.
C9_Witness ==
    /\ pc = "fault"
    /\ nGet = 1
    /\ nPrint = 0
    /\ Len(lang_map) = 1
    /\ Len(items) = 1

(* C10 *)

\* C10: provided the pending HTTP call eventually completes or fails, every
\* invocation eventually reaches a terminal state (printed once and exited,
\* or faulted) and stays there; while the call is pending the only step is
\* its resolution, which leaves every variable of the program as it was.
C10_Terminates ==
    /\ <>[](pc = "fault" \/ (pc = "done" /\ nPrint = 1))
    /\ (pc = "pending") ~> (pc \in {"decode", "fault"})
    /\ [][pc = "pending" =>
              /\ pc' \in {"decode", "fault"}
              /\ UNCHANGED <<response, items, lang_map, result, text, stdout, nGet, nPrint>>]_vars

\* An invocation has ended after a loop over two entries.
C10_Witness ==
    /\ pc = "done"
    /\ Len(Entries) = 2
    /\ Len(result) = 2
    /\ items = <<>>

====
